---- MODULE Spec2Model ----
(***************************************************************************)
(* Model of src/app.py, the Streamlit "Principal QA Strategy Hub".          *)
(*                                                                         *)
(* Strings are modelled as sequences of tokens: a token is a character     *)
(* (" ", "\n", "|", a letter) or a word the code searches for as a whole   *)
(* ("CASE:", "REWRITE", "Pending", ...).  The empty string is << >>.       *)
(* A DataFrame is a record [cols, rows]: cols is the ordered list of the   *)
(* column names and rows the list of rows, each a function from the column *)
(* names to cell values.                                                   *)
(***************************************************************************)
EXTENDS Integers, Sequences, FiniteSets, TLC

VARIABLES
    \* ---- the hosted store (supabase) ----
    projects,      \* table "projects": the list of project names, id = position
    strategies,    \* table "strategies": list of rows
    test_cases,    \* table "test_cases": list of rows
    \* ---- the browser sessions ----
    sess,          \* st.session_state of each session, plus its script position
    \* ---- the extractor driven alone ----
    text,          \* a model output (the value of `result`, line 235)
    generated,     \* the table the generate action built from text
    phase,         \* "input" | "done": whether the driver has applied the code
    \* ---- ensure_columns driven alone ----
    df_in,         \* an arbitrary table
    df_once,       \* ensure_columns(df_in)
    df_twice       \* ensure_columns(ensure_columns(df_in))

vars == <<projects, strategies, test_cases, sess, text, generated, phase,
          df_in, df_once, df_twice>>

(***************************************************************************)
(* Bounds of the model.                                                    *)
(***************************************************************************)
MaxLines   == 3   \* lines of a model output fed to the extractor alone
MaxMissing == 2   \* required columns missing from an input of ensure_columns
MaxRows    == 2   \* rows of an input of ensure_columns
MaxRuns    == 4   \* script runs of a session alone on the store
MaxSharedRuns == 2 \* script runs of each of two sessions sharing the store
MaxProjects == 2  \* rows of the projects table

(***************************************************************************)
(* Strings.                                                                *)
(***************************************************************************)
EMPTY   == << >>
NL      == "\n"
SP      == " "
WS      == {SP, NL}
Word(w) == <<w>>

SeqMin(S) == CHOOSE x \in S : \A y \in S : x <= y
SeqMax(S) == CHOOSE x \in S : \A y \in S : x >= y

Sub(s, from, to) == [k \in 1..(to - from) |-> s[from + k - 1]]

\* str.strip(): drops the leading and the trailing whitespace
Strip(s) ==
    LET keep == {k \in 1..Len(s) : s[k] \notin WS}
    IN  IF keep = {} THEN EMPTY ELSE Sub(s, SeqMin(keep), SeqMax(keep) + 1)

\* str.upper() on one token
UpperTok(tok) ==
    CASE tok = "rewrite"  -> "REWRITE"
      [] tok = "Strategy" -> "STRATEGY"
      [] tok = "doubts"   -> "DOUBTS"
      [] OTHER            -> tok

Upper(s) == [k \in 1..Len(s) |-> UpperTok(s[k])]

\* `w in s` for a word w the code searches for
Contains(s, w) == \E k \in 1..Len(s) : s[k] = w

\* str.split("\n")
RECURSIVE Split(_)
Split(s) ==
    LET nls == {k \in 1..Len(s) : s[k] = NL}
    IN  IF nls = {} THEN <<s>>
        ELSE LET k == SeqMin(nls)
             IN  <<Sub(s, 1, k)>> \o Split(Sub(s, k + 1, Len(s) + 1))

\* "\n".join(lines)
RECURSIVE Join(_)
Join(lines) ==
    IF Len(lines) = 0 THEN EMPTY
    ELSE IF Len(lines) = 1 THEN lines[1]
    ELSE lines[1] \o <<NL>> \o Join(Tail(lines))

(***************************************************************************)
(* Tables.                                                                 *)
(***************************************************************************)
required == <<"ID", "Scenario", "Expected", "Status", "Severity", "Priority",
              "Module", "Assigned_To", "Actual_Result", "Evidence_Link">>

Range(s) == {s[k] : k \in 1..Len(s)}

Pending == Word("Pending")

\* pd.DataFrame(): no columns, no rows
EmptyFrame == [cols |-> << >>, rows |-> << >>]

\* pd.DataFrame(list of dicts): the columns are the keys of the dicts
DataFrame(recs, keys) ==
    IF Len(recs) = 0 THEN EmptyFrame ELSE [cols |-> keys, rows |-> recs]

\* lines 57-59: every required column df lacks is added, in the order of
\* `required`, holding "" in every row
AddColumns(df, names) ==
    LET missing == SelectSeq(names, LAMBDA col : col \notin Range(df.cols))
    IN  [cols |-> df.cols \o missing,
         rows |-> [k \in 1..Len(df.rows) |->
                     [c \in Range(df.cols) \cup Range(missing) |->
                        IF c \in Range(df.cols) THEN df.rows[k][c] ELSE EMPTY]]]

\* df["Status"] = df["Status"].replace("", "Pending")
ReplaceStatus(df) ==
    IF "Status" \in Range(df.cols)
    THEN [cols |-> df.cols,
          rows |-> [k \in 1..Len(df.rows) |->
                      [c \in Range(df.cols) |->
                         IF c = "Status" /\ df.rows[k][c] = EMPTY THEN Pending
                         ELSE df.rows[k][c]]]]
    ELSE df

\* A slip: the blank statuses are replaced before the missing columns are added
ensure_columns_ReplaceFirst(df) == AddColumns(ReplaceStatus(df), required)

ensure_columns(df) == ReplaceStatus(AddColumns(df, required))

(***************************************************************************)
(* The extractor: re.findall(pattern, result, re.MULTILINE) with           *)
(*   CASE:\s*(.*?)\s*\|\s*(.*?)\s*\|\s*(.*?)\s*\|\s*(.*?)$                  *)
(* The pattern is a list of elements: the literal CASE:, \s* (greedy),     *)
(* (.*?) (lazy, no newline), the literal |, and $ (end of text or before a *)
(* newline).                                                               *)
(***************************************************************************)
pattern == <<"CASE:", "ws", "grp", "ws", "|", "ws", "grp", "ws", "|",
             "ws", "grp", "ws", "|", "ws", "grp", "$">>

\* the number of whitespace tokens from position p on
RECURSIVE WsRun(_, _)
WsRun(t, p) == IF p > Len(t) \/ t[p] \notin WS THEN 0 ELSE 1 + WsRun(t, p + 1)

\* the number of tokens other than the newline from position p on
RECURSIVE DotRun(_, _)
DotRun(t, p) == IF p > Len(t) \/ t[p] = NL THEN 0 ELSE 1 + DotRun(t, p + 1)

\* the lengths element e may consume at p, in the order the engine tries them
Tries(t, e, p) ==
    CASE e = "ws"  -> LET n == WsRun(t, p) IN [k \in 1..(n + 1) |-> n + 1 - k]
      [] e = "grp" -> LET n == DotRun(t, p) IN [k \in 1..(n + 1) |-> k - 1]
      [] e = "$"   -> IF p = Len(t) + 1 \/ t[p] = NL THEN <<0>> ELSE << >>
      [] OTHER     -> IF p <= Len(t) /\ t[p] = e THEN <<1>> ELSE << >>

\* the positions from which pattern[i ..] matches, given those (nxt) from which
\* pattern[i+1 ..] does
OkAt(t, i, nxt) ==
    {p \in 1..(Len(t) + 1) : \E k \in Range(Tries(t, pattern[i], p)) : p + k \in nxt}

\* OkTable(t, i, <<all positions>>)[j]: the positions from which pattern[j ..]
\* matches; i counts down from Len(pattern) and tab holds the entries after i
RECURSIVE OkTable(_, _, _)
OkTable(t, i, tab) ==
    IF i = 0 THEN tab
    ELSE IF tab[1] = {} THEN OkTable(t, i - 1, <<{}>> \o tab)
    ELSE OkTable(t, i - 1, <<OkAt(t, i, tab[1])>> \o tab)

\* the end position of each element, for the match the engine finds at p
RECURSIVE Walk(_, _, _, _)
Walk(t, tab, i, p) ==
    IF i > Len(pattern) THEN << >>
    ELSE LET tr   == Tries(t, pattern[i], p)
             good == {j \in 1..Len(tr) : p + tr[j] \in tab[i + 1]}
             k    == tr[SeqMin(good)]
         IN  <<p + k>> \o Walk(t, tab, i + 1, p + k)

\* the matches, left to right, none overlapping: where each starts and its groups
RECURSIVE FindFrom(_, _, _)
FindFrom(t, tab, pos) ==
    LET starts == {p \in pos..Len(t) : p \in tab[1]}
    IN  IF starts = {} THEN << >>
        ELSE LET s    == SeqMin(starts)
                 ends == Walk(t, tab, 1, s)
                 m    == [start  |-> s,
                          groups |-> <<Sub(t, ends[2], ends[3]),
                                       Sub(t, ends[6], ends[7]),
                                       Sub(t, ends[10], ends[11]),
                                       Sub(t, ends[14], ends[15])>>]
             IN  <<m>> \o FindFrom(t, tab, ends[16])

Matches(t) ==
    LET tab == OkTable(t, Len(pattern), << 1..(Len(t) + 1) >>)
    IN  IF tab[1] = {} THEN << >> ELSE FindFrom(t, tab, 1)

re_findall(t) ==
    LET ms == Matches(t) IN [k \in 1..Len(ms) |-> ms[k].groups]

\* f"TC-{n}"
CaseId(n) == <<"TC-", ToString(n)>>

\* a slip: f"TC-{i}" with the 0-based index
CaseRow_ZeroBased(i, match) ==
    [c \in Range(required) |->
       CASE c = "ID"       -> CaseId(i - 1)
         [] c = "Scenario" -> Strip(match[1])
         [] c = "Expected" -> Strip(match[2])
         [] c = "Status"   -> Pending
         [] c = "Severity" -> Strip(match[3])
         [] c = "Priority" -> Strip(match[4])
         [] OTHER          -> EMPTY]

\* the dict appended for the match of 1-based position i (lines 252-263)
CaseRow(i, match) ==
    [c \in Range(required) |->
       CASE c = "ID"       -> CaseId(i)
         [] c = "Scenario" -> Strip(match[1])
         [] c = "Expected" -> Strip(match[2])
         [] c = "Status"   -> Pending
         [] c = "Severity" -> Strip(match[3])
         [] c = "Priority" -> Strip(match[4])
         [] OTHER          -> EMPTY]

\* lines 245-265: the table built from a model output
ParseTestCases(result) ==
    LET matches == re_findall(result)
        rows    == [i \in 1..Len(matches) |-> CaseRow(i, matches[i])]
    IN  ensure_columns(DataFrame(rows, required))

(***************************************************************************)
(* parse_sections (lines 81-105).                                          *)
(***************************************************************************)
NoSections == [rewrite |-> EMPTY, feature_table |-> EMPTY,
               strategy |-> EMPTY, doubts |-> EMPTY]

\* the section a line switches to, or "" when the line is no header
Header(line) ==
    LET upper == Upper(line)
    IN  IF Contains(upper, "REWRITE") THEN "rewrite"
        ELSE IF Contains(upper, "FEATURE_TABLE") THEN "feature_table"
        ELSE IF Contains(upper, "STRATEGY") /\ ~Contains(upper, "TEST_CASES")
             THEN "strategy"
        ELSE IF Contains(upper, "DOUBTS") THEN "doubts"
        ELSE ""

RECURSIVE ParseLines(_, _, _)
ParseLines(lines, sections, current) ==
    IF Len(lines) = 0 THEN sections
    ELSE LET line == Head(lines)
             h    == Header(line)
         IN  IF h # "" THEN ParseLines(Tail(lines), sections, h)
             ELSE IF current # ""
                  THEN ParseLines(Tail(lines),
                                  [sections EXCEPT ![current] = @ \o line \o <<NL>>],
                                  current)
                  ELSE ParseLines(Tail(lines), sections, current)

parse_sections(t) == ParseLines(Split(t), NoSections, "")

(***************************************************************************)
(* The store (supabase tables projects, strategies, test_cases).           *)
(***************************************************************************)
None    == "None"     \* Python's None, where a name is expected
NoId    == 0          \* Python's None, where a project id is expected
NewProject == "+ New Project"

Truthy(name) == name # None /\ name # ""

\* lines 67-69, 115
get_projects == projects

\* lines 72-73
create_project(name) == Append(projects, name)

\* lines 76-78: the id of the first project of that name
get_project_id(name) ==
    LET ids == {i \in 1..Len(projects) : projects[i] = name}
    IN  IF ids = {} THEN NoId ELSE SeqMin(ids)

\* .select("*").eq("project_id", pid)
RowsOf(table, pid) == SelectSeq(table, LAMBDA r : r["project_id"] = pid)

\* .delete().eq("project_id", pid), of no effect
DeleteRows_Keep(table, pid) == table

\* .delete().eq("project_id", pid)  (lines 290-293, 323-326)
DeleteRows(table, pid) == SelectSeq(table, LAMBDA r : r["project_id"] # pid)

StoreCols == <<"project_id", "case_id", "scenario", "expected", "status", "severity",
               "priority", "module", "assigned_to", "actual_result", "evidence_link">>

\* the rename of lines 169-180
Renamed(c) ==
    CASE c = "case_id"       -> "ID"
      [] c = "scenario"      -> "Scenario"
      [] c = "expected"      -> "Expected"
      [] c = "status"        -> "Status"
      [] c = "severity"      -> "Severity"
      [] c = "priority"      -> "Priority"
      [] c = "module"        -> "Module"
      [] c = "assigned_to"   -> "Assigned_To"
      [] c = "actual_result" -> "Actual_Result"
      [] c = "evidence_link" -> "Evidence_Link"
      [] OTHER               -> c

\* the column of the store a required column is saved to (lines 332-341)
StoreName(c) == CHOOSE d \in Range(StoreCols) : Renamed(d) = c

\* lines 167-180: pd.DataFrame(cases.data).rename(columns=...)
FrameOfRows(data) ==
    [cols |-> [k \in 1..Len(StoreCols) |-> Renamed(StoreCols[k])],
     rows |-> [k \in 1..Len(data) |->
                 [c \in {Renamed(d) : d \in Range(StoreCols)} |->
                    data[k][StoreName(c)]]]]

\* lines 330-341: the record inserted for row r of the table
StoreRecord(r, pid) ==
    [d \in (DOMAIN r \ Range(required)) \cup Range(StoreCols) |->
       IF d = "project_id" THEN pid
       ELSE IF d \in Range(StoreCols) THEN r[Renamed(d)]
       ELSE r[d]]

\* lines 328-343: the rows inserted for a table
Records(df, pid) == [k \in 1..Len(df.rows) |-> StoreRecord(df.rows[k], pid)]

(***************************************************************************)
(* One script run, piece by piece.  s is a session's st.session_state.      *)
(***************************************************************************)
Sessions == {"s1", "s2"}

\* lines 36-45
NewSession ==
    [rewrite |-> EMPTY, feature_table |-> EMPTY, strategy |-> EMPTY, doubts |-> EMPTY,
     current_df |-> EmptyFrame,
     active_project |-> None, project_id |-> NoId, loaded_project |-> None,
     \* the script's position and locals
     pc |-> "idle", prd_text |-> EMPTY, result |-> EMPTY,
     \* what the last run was and how it ended
     runs |-> 0, last_run |-> "none", selected |-> None, error |-> "",
     \* whether the last run generated over a table that held a failed case
     dropped_fail |-> FALSE]

\* lines 117-120: the options of the selectbox
Options == Range(get_projects) \cup {NewProject}

\* lines 122-130
Sidebar(s, selected) ==
    IF selected = NewProject THEN s
    ELSE [s EXCEPT !.active_project = selected,
                   !.project_id = get_project_id(selected)]

\* a slip: reload whenever a project is active
LoadGuard_Always(s) == Truthy(s.active_project)

\* lines 135-138
LoadGuard(s) ==
    /\ Truthy(s.active_project)
    /\ s.active_project # s.loaded_project

\* lines 140-186
Load(s) ==
    IF ~LoadGuard(s) THEN s
    ELSE LET pid   == s.project_id
             strat == RowsOf(strategies, pid)
             cases == RowsOf(test_cases, pid)
             s1 == IF Len(strat) > 0
                   THEN [s EXCEPT !.rewrite = strat[1].rewrite,
                                  !.feature_table = strat[1].feature_table,
                                  !.strategy = strat[1].strategy_text,
                                  !.doubts = strat[1].doubts]
                   ELSE [s EXCEPT !.rewrite = EMPTY, !.feature_table = EMPTY,
                                  !.strategy = EMPTY, !.doubts = EMPTY]
         IN  [s1 EXCEPT !.current_df =
                           IF Len(cases) > 0 THEN ensure_columns(FrameOfRows(cases))
                           ELSE ensure_columns(EmptyFrame),
                        !.loaded_project = s.active_project]

\* lines 111-186: the run up to the tabs
Prologue(s, selected) == Load(Sidebar(s, selected))

\* a slip: the new rows are appended to the table held before
GenerateInto_Merge(s, result) ==
    LET sections == parse_sections(result)
        new      == ParseTestCases(result)
    IN  [s EXCEPT !.rewrite = sections.rewrite,
                  !.feature_table = sections.feature_table,
                  !.strategy = sections.strategy,
                  !.doubts = sections.doubts,
                  !.result = result,
                  !.current_df = IF Range(required) \subseteq Range(s.current_df.cols)
                                 THEN [cols |-> new.cols,
                                       rows |-> [k \in 1..Len(s.current_df.rows) |->
                                                   [c \in Range(new.cols) |->
                                                      s.current_df.rows[k][c]]]
                                                \o new.rows]
                                 ELSE new]

\* lines 235-265: the session after the model answered `result`
GenerateInto(s, result) ==
    LET sections == parse_sections(result)
    IN  [s EXCEPT !.rewrite = sections.rewrite,
                  !.feature_table = sections.feature_table,
                  !.strategy = sections.strategy,
                  !.doubts = sections.doubts,
                  !.result = result,
                  !.current_df = ParseTestCases(result)]

\* lines 268-273: whether the Save Strategy button is drawn
AnySection(s) ==
    s.rewrite # EMPTY \/ s.feature_table # EMPTY \/ s.strategy # EMPTY \/ s.doubts # EMPTY

\* lines 313-317: the grid returns the table, with the cell the user edited
NoEdit == [row |-> 0, col |-> "", val |-> EMPTY]
EditCols == {"Status", "Actual_Result"}
EditVals == {Word("Fail")}

Edits(df) ==
    {NoEdit} \cup
    {[row |-> k, col |-> c, val |-> v] :
        k \in 1..Len(df.rows), c \in EditCols \cap Range(df.cols), v \in EditVals}

data_editor(df, edit) ==
    IF edit = NoEdit THEN df
    ELSE [cols |-> df.cols,
          rows |-> [k \in 1..Len(df.rows) |->
                      [c \in Range(df.cols) |->
                         IF k = edit.row /\ c = edit.col THEN edit.val
                         ELSE df.rows[k][c]]]]

\* lines 354-355: df[df["Status"] == "Fail"] raises KeyError without the column
BugCenter(df) == IF "Status" \in Range(df.cols) THEN "" ELSE "KeyError"

\* lines 309-358 when no button of the two tabs is pressed
Tabs23(s, edit) ==
    LET df == data_editor(s.current_df, edit)
    IN  [s EXCEPT !.current_df = df, !.error = BugCenter(df)]

Ended(s, kind, selected) ==
    [s EXCEPT !.runs = @ + 1, !.last_run = kind, !.selected = selected, !.pc = "idle"]

HasFail(df) ==
    /\ "Status" \in Range(df.cols)
    /\ \E k \in 1..Len(df.rows) : df.rows[k]["Status"] = Word("Fail")

(***************************************************************************)
(* The script runs: one action for each thing the user can do.             *)
(***************************************************************************)
Names    == {"", "q"}
PrdTexts == {<<SP>>, <<"prd">>}
GenTexts ==
    { Join(<< <<"REWRITE">>, <<"r">>,
              <<"CASE:", "a", "|", "b", "|", "Major", "|", "P1">> >>),
      Join(<< <<"Strategy">>, <<"s">>,
              <<"CASE:", "c", "|", "d", "|", "Minor", "|", "P2">>,
              <<"CASE:", "e", "|", "f", "|", "Major", "|", "P0">> >>),
      Join(<< <<"doubts">>, <<"d">> >>) }

Live(u) == u \in DOMAIN sess

\* a session alone on the store runs MaxRuns times, each of two MaxSharedRuns times
RunCap == IF Cardinality(DOMAIN sess) = 1 THEN MaxRuns ELSE MaxSharedRuns

Idle(u) == Live(u) /\ sess[u].pc = "idle" /\ sess[u].runs < RunCap

StoreUnchanged == UNCHANGED <<projects, strategies, test_cases>>
OthersUnchanged == UNCHANGED <<text, generated, phase, df_in, df_once, df_twice>>

\* a run with no button pressed: a selection or an edit of the grid
Rerun(u) ==
    /\ Idle(u)
    /\ \E selected \in Options :
         LET s1 == [Prologue(sess[u], selected) EXCEPT !.dropped_fail = FALSE]
         IN  \E edit \in Edits(s1.current_df) :
               sess' = [sess EXCEPT ![u] = Ended(Tabs23(s1, edit), "rerun", selected)]
    /\ StoreUnchanged /\ OthersUnchanged

\* lines 122-127: Create Project, which ends the run with st.rerun()
CreateProject(u) ==
    /\ Idle(u)
    /\ Len(projects) < MaxProjects
    /\ \E new_name \in Names :
         projects' = create_project(new_name)
    /\ sess' = [sess EXCEPT ![u] =
                  Ended([@ EXCEPT !.dropped_fail = FALSE], "create", NewProject)]
    /\ UNCHANGED <<strategies, test_cases>> /\ OthersUnchanged

\* lines 206-265: Generate Quality Strategy
Generate(u) ==
    /\ Idle(u)
    /\ \E selected \in Options, prd_text \in PrdTexts, result \in GenTexts :
         LET s1 == [Prologue(sess[u], selected) EXCEPT !.prd_text = prd_text]
         IN  IF Strip(prd_text) = EMPTY
             THEN \* st.stop(): the tabs below are not run
                  sess' = [sess EXCEPT ![u] =
                             Ended([s1 EXCEPT !.error = "", !.dropped_fail = FALSE],
                                   "stopped", selected)]
             ELSE sess' = [sess EXCEPT ![u] =
                             Ended(Tabs23([GenerateInto(s1, result) EXCEPT
                                              !.dropped_fail = HasFail(s1.current_df)],
                                          NoEdit),
                                   "generate", selected)]
    /\ StoreUnchanged /\ OthersUnchanged

\* lines 287-293: Save Strategy, up to the delete
SaveStrategyDelete(u) ==
    /\ Idle(u)
    /\ \E selected \in Options, prd_text \in PrdTexts :
         LET s1 == [Prologue(sess[u], selected) EXCEPT !.prd_text = prd_text,
                                                       !.dropped_fail = FALSE]
         IN  /\ AnySection(s1)
             /\ IF s1.project_id = NoId
                THEN \* .eq("project_id", None) is refused by the store
                     /\ sess' = [sess EXCEPT ![u] =
                                   Ended([s1 EXCEPT !.error = "APIError"],
                                         "saveStrategy", selected)]
                     /\ strategies' = strategies
                ELSE /\ sess' = [sess EXCEPT ![u] = [s1 EXCEPT !.pc = "saveStrategy",
                                                                !.selected = selected]]
                     /\ strategies' = DeleteRows(strategies, s1.project_id)
    /\ UNCHANGED <<projects, test_cases>> /\ OthersUnchanged

\* lines 295-304, then the two other tabs
SaveStrategyInsert(u) ==
    /\ Live(u)
    /\ sess[u].pc = "saveStrategy"
    /\ strategies' = Append(strategies,
                            [project_id    |-> sess[u].project_id,
                             prd_text      |-> sess[u].prd_text,
                             strategy_text |-> sess[u].strategy,
                             rewrite       |-> sess[u].rewrite,
                             feature_table |-> sess[u].feature_table,
                             doubts        |-> sess[u].doubts])
    /\ sess' = [sess EXCEPT ![u] =
                  Ended(Tabs23(@, NoEdit), "saveStrategy", sess[u].selected)]
    /\ UNCHANGED <<projects, test_cases>> /\ OthersUnchanged

\* lines 319-326: Save Execution Updates, up to the delete
SaveExecutionDelete(u) ==
    /\ Idle(u)
    /\ \E selected \in Options :
         LET s0 == [Prologue(sess[u], selected) EXCEPT !.dropped_fail = FALSE]
             s1 == [s0 EXCEPT !.current_df = data_editor(s0.current_df, NoEdit)]
         IN  IF s1.project_id = NoId
             THEN \* .eq("project_id", None) is refused by the store
                  /\ sess' = [sess EXCEPT ![u] =
                                Ended([s1 EXCEPT !.error = "APIError"],
                                      "saveExecution", selected)]
                  /\ test_cases' = test_cases
             ELSE /\ sess' = [sess EXCEPT ![u] = [s1 EXCEPT !.pc = "saveExecution",
                                                             !.selected = selected]]
                  /\ test_cases' = DeleteRows(test_cases, s1.project_id)
    /\ UNCHANGED <<projects, strategies>> /\ OthersUnchanged

\* lines 328-345, then the Bug Center
SaveExecutionInsert(u) ==
    /\ Live(u)
    /\ sess[u].pc = "saveExecution"
    /\ test_cases' = test_cases \o Records(sess[u].current_df, sess[u].project_id)
    /\ sess' = [sess EXCEPT ![u] =
                  Ended([sess[u] EXCEPT !.error = BugCenter(sess[u].current_df)],
                        "saveExecution", sess[u].selected)]
    /\ UNCHANGED <<projects, strategies>> /\ OthersUnchanged

Run(u) ==
    \/ Rerun(u)
    \/ CreateProject(u)
    \/ Generate(u)
    \/ SaveStrategyDelete(u)
    \/ SaveStrategyInsert(u)
    \/ SaveExecutionDelete(u)
    \/ SaveExecutionInsert(u)

InitStore ==
    /\ projects \in {<< >>, <<"p">>}
    /\ strategies = << >>
    /\ test_cases = << >>

Unused ==
    /\ text = EMPTY /\ generated = EmptyFrame /\ phase = "input"
    /\ df_in = EmptyFrame /\ df_once = EmptyFrame /\ df_twice = EmptyFrame

Init == InitStore /\ Unused /\ sess = [u \in Sessions |-> NewSession]

InitSolo == InitStore /\ Unused /\ sess = [u \in {"s1"} |-> NewSession]

Next == \E u \in Sessions : Run(u)

\* two sessions on one store, their store calls interleaved
Spec == Init /\ [][Next]_vars

\* one session on the store
SpecSolo == InitSolo /\ [][Next]_vars

(***************************************************************************)
(* The states the parts not driven by a specification rest in.             *)
(***************************************************************************)
NoStore    == /\ projects = << >> /\ strategies = << >> /\ test_cases = << >>
NoSessions == sess = << >>
NoExtract  == /\ text = EMPTY /\ generated = EmptyFrame
NoEnsure   == /\ df_in = EmptyFrame /\ df_once = EmptyFrame /\ df_twice = EmptyFrame

(***************************************************************************)
(* SpecExtract: the generate action's parse (lines 244-265) applied to     *)
(* model outputs of at most MaxLines lines.                                *)
(***************************************************************************)
SampleLines ==
    { <<"CASE:", SP, "a", "|", "b", "|", "Major", "|", "P1">>,
      <<"CASE:", SP, "A", SP, "|", SP, "B">>,
      <<"CASE:", "a", "|", "b", "|", "c">>,
      <<"CASE:", SP, "[Scenario]", SP, "|", SP, "[Expected]", SP, "|", SP,
        "[Severity]", SP, "|", SP, "[Priority]">>,
      <<"FORMAT:", SP, "CASE:", "s", "|", "x", "|", "v", "|", "p">>,
      <<"7.", SP, "CASE:", SP, "9.", SP, "c", "|", "d", "|", "Minor", "|", "P2", SP>>,
      <<"CASE:", "e", "|", "f", "|">>,
      <<"g", "|", "h">>,
      << >> }

RECURSIVE LineSeqs(_)
LineSeqs(n) ==
    IF n = 0 THEN { << >> }
    ELSE LineSeqs(n - 1) \cup
         {Append(ls, l) : ls \in {x \in LineSeqs(n - 1) : Len(x) = n - 1}, l \in SampleLines}

Outputs(n) == {Join(ls) : ls \in LineSeqs(n)}

InitExtract ==
    /\ NoStore /\ NoSessions /\ NoEnsure
    /\ text \in Outputs(MaxLines)
    /\ generated = EmptyFrame
    /\ phase = "input"

Extract ==
    /\ phase = "input"
    /\ generated' = ParseTestCases(text)
    /\ phase' = "done"
    /\ UNCHANGED <<projects, strategies, test_cases, sess, text, df_in, df_once, df_twice>>

NextExtract == Extract

SpecExtract == InitExtract /\ [][NextExtract]_vars

(***************************************************************************)
(* SpecEnsure: ensure_columns (lines 50-64) applied once and twice to      *)
(* tables that miss columns and hold blank cells.                          *)
(***************************************************************************)
Filled(c) ==
    CASE c = "Status"   -> Word("Pass")
      [] c = "Severity" -> Word("Minor")
      [] c = "Priority" -> Word("P2")
      [] OTHER          -> Word("x")

BlankCols == {"Scenario", "Status", "Severity", "Priority"}

SmallSubsets(S, n) == {T \in SUBSET S : Cardinality(T) <= n}

\* rows with no blank cell, one blank cell, or every cell of BlankCols blank
RowsOver(cols) ==
    LET here == BlankCols \cap Range(cols)
    IN  {[c \in Range(cols) |-> IF c \in blank THEN EMPTY ELSE Filled(c)] :
            blank \in {{}, here} \cup {{b} : b \in here}}

RECURSIVE RowSeqs(_, _)
RowSeqs(R, n) ==
    IF n = 0 THEN { << >> }
    ELSE LET shorter == RowSeqs(R, n - 1)
         IN  shorter \cup
             {Append(rs, r) : rs \in {x \in shorter : Len(x) = n - 1}, r \in R}

FramesOver(cols, n) == {[cols |-> cols, rows |-> rs] : rs \in RowSeqs(RowsOver(cols), n)}

InputFrames(n, m) ==
    {EmptyFrame} \cup
    UNION {FramesOver(SelectSeq(required, LAMBDA c : c \notin missing), n) :
              missing \in SmallSubsets(Range(required), m)} \cup
    FramesOver(<<"project_id">> \o required, n)

InitEnsure ==
    /\ NoStore /\ NoSessions /\ NoExtract
    /\ df_in \in InputFrames(MaxRows, MaxMissing)
    /\ df_once = EmptyFrame
    /\ df_twice = EmptyFrame
    /\ phase = "input"

ApplyOnce ==
    /\ phase = "input"
    /\ df_once' = ensure_columns(df_in)
    /\ phase' = "once"
    /\ UNCHANGED <<projects, strategies, test_cases, sess, text, generated, df_in, df_twice>>

ApplyTwice ==
    /\ phase = "once"
    /\ df_twice' = ensure_columns(df_once)
    /\ phase' = "twice"
    /\ UNCHANGED <<projects, strategies, test_cases, sess, text, generated, df_in, df_once>>

NextEnsure == ApplyOnce \/ ApplyTwice

SpecEnsure == InitEnsure /\ [][NextEnsure]_vars

(***************************************************************************)
(* The properties.                                                         *)
(***************************************************************************)
Major == Word("Major")
P1    == Word("P1")

\* the default the specification documents for a required column
Default(c) ==
    CASE c = "Status"   -> Pending
      [] c = "Severity" -> Major
      [] c = "Priority" -> P1
      [] OTHER          -> EMPTY

HasAllFields(df) == Range(required) \subseteq Range(df.cols)

\* C1: after any script run the in-memory table of a session has all ten
\* required fields, and the Bug Center did not read an absent one.
C1_AllFieldsPresent ==
    \A u \in DOMAIN sess :
        sess[u].last_run # "none" =>
            /\ HasAllFields(sess[u].current_df)
            /\ sess[u].error # "KeyError"

\* C2: in the table ensure_columns returns, every required column that the
\* input lacked, or held blank, holds the column's default in every row:
\* Pending, Major, P1, and "" for the others.
C2_DefaultsFilled ==
    phase # "input" =>
        \A c \in Range(required) : \A k \in 1..Len(df_once.rows) :
            (c \notin Range(df_in.cols) \/ df_in.rows[k][c] = EMPTY)
                => df_once.rows[k][c] = Default(c)

TwoFieldLine == <<"CASE:", SP, "A", SP, "|", SP, "B">>

\* C3: the output whose only line is "CASE: A | B" yields exactly one record:
\* Scenario A, Expected B, Severity Major, Priority P1, Status Pending, ID TC-1.
C3_TwoFieldsYieldRecord ==
    (phase = "done" /\ text = TwoFieldLine) =>
        /\ Len(generated.rows) = 1
        /\ generated.rows[1]["Scenario"] = Word("A")
        /\ generated.rows[1]["Expected"] = Word("B")
        /\ generated.rows[1]["Severity"] = Major
        /\ generated.rows[1]["Priority"] = P1
        /\ generated.rows[1]["Status"] = Pending
        /\ generated.rows[1]["ID"] = <<"TC-", "1">>

\* the line of t position p lies in
LineAt(t, p) ==
    LET before == {k \in 1..(p - 1) : t[k] = NL}
        from   == IF before = {} THEN 1 ELSE SeqMax(before) + 1
    IN  Sub(t, from, p + DotRun(t, p))

\* a line that echoes the format instruction
EchoLine(line) == Contains(line, "[Scenario]") \/ Contains(line, "FORMAT:")

\* C4: no record of the generated table comes from a line that echoes the
\* format instruction (a line holding [Scenario] or FORMAT:).
C4_NoEchoRecord ==
    phase = "done" =>
        \A k \in 1..Len(generated.rows) :
            ~EchoLine(LineAt(text, Matches(text)[k].start))

\* C5: the k-th record kept has ID TC-k: the IDs are pairwise distinct, count
\* from TC-1 without a gap, and follow the order of the matches in the text.
C5_SurvivalOrderIds ==
    phase = "done" =>
        LET ms   == Matches(text)
            rows == generated.rows
        IN  /\ Len(rows) = Len(ms)
            /\ \A k \in 1..Len(rows) :
                 /\ rows[k]["ID"] = <<"TC-", ToString(k)>>
                 /\ rows[k]["Scenario"] = Strip(ms[k].groups[1])
            /\ \A j, k \in 1..Len(rows) :
                 j < k => /\ rows[j]["ID"] # rows[k]["ID"]
                          /\ ms[j].start < ms[k].start

\* two records are kept, the first line of the output is not one of them, and
\* the second record's line carries ordinals of the model's own
C5_Witness ==
    /\ phase = "done"
    /\ Len(generated.rows) = 2
    /\ Matches(text)[1].start > 1
    /\ Contains(generated.rows[2]["Scenario"], "9.")

Conformant(df) ==
    /\ HasAllFields(df)
    /\ \A k \in 1..Len(df.rows) : df.rows[k]["Status"] # EMPTY

\* C6: ensure_columns applied twice gives the table it gives applied once, and
\* applied to a table with every required column and no blank Status it gives
\* the table back.
C6_Idempotent ==
    /\ phase = "twice" => df_twice = df_once
    /\ (phase # "input" /\ Conformant(df_in)) => df_once = df_in

\* the first application changed the table: it lacked Status and held a row
C6_Witness ==
    /\ phase = "twice"
    /\ "Status" \notin Range(df_in.cols)
    /\ Len(df_in.rows) > 0
    /\ df_once # df_in

SavedBy(u) ==
    /\ sess[u].last_run = "saveExecution"
    /\ sess[u].pc = "idle"
    /\ sess[u].error = ""

\* C7: once two sessions have both completed a save of the same project, the
\* stored rows of the project are the table of one of the two.
C7_LastWriteWins ==
    \A u, v \in DOMAIN sess :
        (u # v /\ SavedBy(u) /\ SavedBy(v) /\ sess[u].project_id = sess[v].project_id)
        => LET pid == sess[u].project_id
           IN  \/ RowsOf(test_cases, pid) = Records(sess[u].current_df, pid)
               \/ RowsOf(test_cases, pid) = Records(sess[v].current_df, pid)

\* C8: when a session alone on the store completes Save Execution Updates, the
\* stored rows of the active project are the rows of its table, one for one
\* and in order, and neither step of the save changes another project's rows.
C8_SaveOverwritesProject ==
    [][\A u \in DOMAIN sess :
         LET pid == sess'[u].project_id
         IN  /\ (sess[u].pc = "saveExecution" /\ sess'[u].pc = "idle")
                  => RowsOf(test_cases', pid) = Records(sess'[u].current_df, pid)
             /\ (sess'[u].pc = "saveExecution" \/ sess[u].pc = "saveExecution")
                  => \A q \in 1..Len(projects) :
                        q # pid => RowsOf(test_cases', q) = RowsOf(test_cases, q)
      ]_vars

\* a save completed for a table with rows, while another project has rows
C8_Witness ==
    \E u \in DOMAIN sess :
        /\ SavedBy(u)
        /\ Len(sess[u].current_df.rows) > 0
        /\ RowsOf(test_cases, sess[u].project_id)
             = Records(sess[u].current_df, sess[u].project_id)
        /\ \E k \in 1..Len(test_cases) :
             test_cases[k]["project_id"] # sess[u].project_id

\* C9: after a generate run the table holds exactly the records extracted from
\* the new output, in order, each Pending, and nothing of the table before.
C9_GenerateReplaces ==
    \A u \in DOMAIN sess :
        (sess[u].last_run = "generate" /\ sess[u].pc = "idle") =>
            LET ms   == Matches(sess[u].result)
                df   == sess[u].current_df
            IN  /\ df.cols = required
                /\ Len(df.rows) = Len(ms)
                /\ \A k \in 1..Len(df.rows) :
                     /\ df.rows[k]["ID"] = <<"TC-", ToString(k)>>
                     /\ df.rows[k]["Scenario"] = Strip(ms[k].groups[1])
                     /\ df.rows[k]["Expected"] = Strip(ms[k].groups[2])
                     /\ df.rows[k]["Severity"] = Strip(ms[k].groups[3])
                     /\ df.rows[k]["Priority"] = Strip(ms[k].groups[4])
                     /\ df.rows[k]["Status"] = Pending
                     /\ \A c \in {"Module", "Assigned_To", "Actual_Result",
                                  "Evidence_Link"} : df.rows[k][c] = EMPTY

\* an output with no record replaced a table that held a failed case
C9_Witness ==
    \E u \in DOMAIN sess :
        /\ sess[u].last_run = "generate"
        /\ sess[u].pc = "idle"
        /\ sess[u].dropped_fail
        /\ Len(sess[u].current_df.rows) = 0

SameData(a, b) ==
    /\ a.current_df = b.current_df
    /\ a.rewrite = b.rewrite /\ a.feature_table = b.feature_table
    /\ a.strategy = b.strategy /\ a.doubts = b.doubts

\* C10: whatever is selected in the next run, the load step reloads only when
\* a project is selected that differs from loaded_project, it leaves
\* loaded_project equal to active_project, and when the selected project is
\* loaded_project it leaves the table and the strategy texts as they are.
C10_LoadOnlyOnChange ==
    \A u \in DOMAIN sess : \A selected \in Options :
        LET before == Sidebar(sess[u], selected)
            after  == Load(before)
        IN  /\ LoadGuard(before) =>
                 /\ selected # NewProject
                 /\ selected # sess[u].loaded_project
                 /\ after.loaded_project = after.active_project
            /\ ~LoadGuard(before) => after = before
            /\ selected = sess[u].loaded_project => SameData(after, sess[u])

\* a rerun with the loaded project selected kept an edited table that was
\* never saved
C10_Witness ==
    \E u \in DOMAIN sess :
        /\ sess[u].last_run = "rerun"
        /\ sess[u].selected = sess[u].loaded_project
        /\ sess[u].runs >= 3
        /\ HasFail(sess[u].current_df)
        /\ RowsOf(test_cases, sess[u].project_id) = << >>

====
